---- MODULE Spec2Model ----
(***************************************************************************)
(* A model of vssh (src/src/bin/vssh.rs): the line parser (parse_line,     *)
(* shell_split) as operators over sequences of characters, and the process *)
(* orchestrator (execute, exec_single, exec_pipeline) together with the    *)
(* read loop of main as a state machine over the shell process, its        *)
(* forked children and the pipe endpoints each of them holds.              *)
(*                                                                         *)
(* A text is a sequence of one-character strings.  NUL stands for the      *)
(* byte 0, which CString::new rejects.                                     *)
(***************************************************************************)
EXTENDS Naturals, Sequences, FiniteSets, TLC

VARIABLES
    line,           \* parser: the text handed to parse_line
    result,         \* parser: what parse_line returned, or Pending
    pc,             \* shell: where the original process stands
    pl,             \* shell: the ParsedLine being executed
    i,              \* exec_pipeline: the loop index, 0-based as in the code
    pids,           \* exec_pipeline: pids (exec_single: the one child)
    prev_read_end,  \* exec_pipeline: Option<OwnedFd>, {} or {channel}
    read_end,       \* exec_pipeline: Option<OwnedFd> of this iteration
    write_end,      \* exec_pipeline: Option<OwnedFd> of this iteration
    k,              \* the wait loop: position in pids, 1-based
    ret,            \* shell: what the last execute returned to main
    printed,        \* shell: pid named by "Starting background process"
    proc            \* every child process ever forked, by pid

pvars == <<line, result>>
svars == <<pc, pl, i, pids, prev_read_end, read_end, write_end, k, ret, printed>>
ovars == <<pc, pl, i, pids, prev_read_end, read_end, write_end, k, ret, printed,
           proc>>
vars == <<line, result, pc, pl, i, pids, prev_read_end, read_end, write_end, k,
          ret, printed, proc>>

-----------------------------------------------------------------------------
(* Bounds of the parser model *)

MaxLen == 5

NUL == "NUL"

\* the characters the exhaustive inputs are drawn from; "\n" is whitespace
\* that trim removes and shell_split does not split on
Alphabet == {"a", " ", "\t", "\n", "'", "\"", "|", "<", ">", "&", NUL}

-----------------------------------------------------------------------------
(* Text primitives of the Rust standard library, as the parser uses them *)

\* char::is_whitespace, used by str::trim / trim_end
is_whitespace(c) == c \in {" ", "\t", "\n"}

RECURSIVE trim_start(_)
trim_start(s) ==
    IF s # <<>> /\ is_whitespace(Head(s)) THEN trim_start(Tail(s)) ELSE s

RECURSIVE trim_end(_)
trim_end(s) ==
    IF s # <<>> /\ is_whitespace(s[Len(s)])
    THEN trim_end(SubSeq(s, 1, Len(s) - 1))
    ELSE s

trim(s) == trim_end(trim_start(s))

ends_with(s, c) == s # <<>> /\ s[Len(s)] = c

pop(s) == SubSeq(s, 1, Len(s) - 1)

contains(s, c) == \E j \in 1..Len(s) : s[j] = c

\* str::split(c): one piece more than there are occurrences of c; the empty
\* text splits into one empty piece
RECURSIVE split(_, _)
split(s, c) ==
    IF ~contains(s, c)
    THEN <<s>>
    ELSE LET at == CHOOSE j \in 1..Len(s) :
                       s[j] = c /\ \A m \in 1..(j - 1) : s[m] # c
         IN  <<SubSeq(s, 1, at - 1)>> \o split(SubSeq(s, at + 1, Len(s)), c)

\* CString::new fails on an interior NUL byte
CString_ok(t) == ~contains(t, NUL)

None == [some |-> FALSE, val |-> <<>>]
Some(v) == [some |-> TRUE, val |-> v]

-----------------------------------------------------------------------------
(* shell_split: one pass over the characters with the loop's four locals *)

\* shell_split_step without quote_char: either quote ends a region
shell_split_step_any_quote(st, c) ==
    IF c \in {"'", "\""}
    THEN [st EXCEPT !.in_quotes = ~st.in_quotes]
    ELSE IF c \in {" ", "\t"} /\ ~st.in_quotes
         THEN IF st.buf # <<>>
              THEN [st EXCEPT !.out = Append(st.out, st.buf), !.buf = <<>>]
              ELSE st
         ELSE [st EXCEPT !.buf = Append(st.buf, c)]

\* lines 198-208: the body of the loop over the characters
shell_split_step(st, c) ==
    IF c \in {"'", "\""}
    THEN IF st.in_quotes /\ c = st.quote_char
         THEN [st EXCEPT !.in_quotes = FALSE]
         ELSE IF ~st.in_quotes
              THEN [st EXCEPT !.in_quotes = TRUE, !.quote_char = c]
              ELSE [st EXCEPT !.buf = Append(st.buf, c)]
    ELSE IF c \in {" ", "\t"} /\ ~st.in_quotes
         THEN IF st.buf # <<>>
              THEN [st EXCEPT !.out = Append(st.out, st.buf), !.buf = <<>>]
              ELSE st
         ELSE [st EXCEPT !.buf = Append(st.buf, c)]

RECURSIVE shell_split_loop(_, _)
shell_split_loop(st, s) ==
    IF s = <<>> THEN st
    ELSE shell_split_loop(shell_split_step(st, Head(s)), Tail(s))

shell_split(s) ==
    LET st == shell_split_loop(
                  [out |-> <<>>, buf |-> <<>>, in_quotes |-> FALSE,
                   quote_char |-> " "], s)
    IN  IF st.buf # <<>> THEN Append(st.out, st.buf) ELSE st.out

-----------------------------------------------------------------------------
(* parse_line *)

ParseErr(msg) ==
    [ok |-> FALSE, err |-> msg, background |-> FALSE,
     input |-> None, output |-> None, pipeline |-> <<>>]

ParseOk(bg, inp, outp, pipe) ==
    [ok |-> TRUE, err |-> "", background |-> bg,
     input |-> inp, output |-> outp, pipeline |-> pipe]

\* strip_background that sets the flag and leaves the '&' in the text
strip_background_keeping(l) ==
    LET s == trim(l)
    IN  IF ends_with(s, "&")
        THEN [background |-> TRUE, s |-> trim_end(s)]
        ELSE [background |-> FALSE, s |-> s]

\* lines 147-149: the trimmed text, the flag, and the text without the '&'
strip_background(l) ==
    LET s == trim(l)
    IN  IF ends_with(s, "&")
        THEN [background |-> TRUE, s |-> trim_end(pop(s))]
        ELSE [background |-> FALSE, s |-> s]

\* split_segments with the pieces in reverse order
split_segments_reversed(s) ==
    LET raw == split(s, "|")
    IN  [j \in 1..Len(raw) |-> trim(raw[Len(raw) + 1 - j])]

\* line 150: split on '|', every piece trimmed
split_segments(s) ==
    LET raw == split(s, "|")
    IN  [j \in 1..Len(raw) |-> trim(raw[j])]

\* redirect with the target tokenized and its first token taken for the path
redirect_tokenizing(seg, op, invalidMsg, missingMsg) ==
    IF ~contains(seg, op)
    THEN [err |-> "", file |-> None, seg |-> seg]
    ELSE LET parts == split(seg, op)
             toks  == IF Len(parts) = 2 THEN shell_split(parts[2]) ELSE <<>>
         IN  IF Len(parts) # 2
             THEN [err |-> invalidMsg, file |-> None, seg |-> seg]
             ELSE IF trim(parts[2]) = <<>>
                  THEN [err |-> missingMsg, file |-> None, seg |-> seg]
                  ELSE [err |-> "",
                        file |-> Some(IF toks = <<>> THEN <<>> ELSE toks[1]),
                        seg |-> trim(parts[1])]

\* redirect without the test of line 157 / 170: a segment without the
\* operator splits into one part, which is then taken for a malformed one
redirect_unguarded(seg, op, invalidMsg, missingMsg) ==
    LET parts == split(seg, op)
    IN  IF Len(parts) # 2
        THEN [err |-> invalidMsg, file |-> None, seg |-> seg]
        ELSE IF trim(parts[2]) = <<>>
             THEN [err |-> missingMsg, file |-> None, seg |-> seg]
             ELSE [err |-> "", file |-> Some(trim(parts[2])),
                   seg |-> trim(parts[1])]

\* lines 155-166 and 168-179: the redirection of one segment on operator op.
\* err is "" when there is none; file is None when seg has no op
redirect(seg, op, invalidMsg, missingMsg) ==
    IF ~contains(seg, op)
    THEN [err |-> "", file |-> None, seg |-> seg]
    ELSE LET parts == split(seg, op)
         IN  IF Len(parts) # 2
             THEN [err |-> invalidMsg, file |-> None, seg |-> seg]
             ELSE IF trim(parts[2]) = <<>>
                  THEN [err |-> missingMsg, file |-> None, seg |-> seg]
                  ELSE [err |-> "", file |-> Some(trim(parts[2])),
                        seg |-> trim(parts[1])]

redirect_input(seg) ==
    redirect(seg, "<", "invalid input redirection", "missing input filename")

redirect_output(seg) ==
    redirect(seg, ">", "invalid output redirection", "missing output filename")

\* build_pipeline with `continue` in place of the error of line 184: a
\* segment without a token is skipped
RECURSIVE build_pipeline_skipping(_, _)
build_pipeline_skipping(segments, pipeline) ==
    IF segments = <<>>
    THEN [err |-> "", pipeline |-> pipeline]
    ELSE LET tokens == shell_split(Head(segments))
         IN  IF tokens = <<>>
             THEN build_pipeline_skipping(Tail(segments), pipeline)
             ELSE IF \E t \in 1..Len(tokens) : ~CString_ok(tokens[t])
                  THEN [err |-> "NUL in arg", pipeline |-> <<>>]
                  ELSE build_pipeline_skipping(Tail(segments),
                                               Append(pipeline, tokens))

\* lines 181-187: tokenize the segments in order; the first segment without
\* a token, or with a NUL in a token, ends the parse
RECURSIVE build_pipeline(_, _)
build_pipeline(segments, pipeline) ==
    IF segments = <<>>
    THEN [err |-> "", pipeline |-> pipeline]
    ELSE LET tokens == shell_split(Head(segments))
         IN  IF tokens = <<>>
             THEN [err |-> "empty pipeline segment", pipeline |-> <<>>]
             ELSE IF \E t \in 1..Len(tokens) : ~CString_ok(tokens[t])
                  THEN [err |-> "NUL in arg", pipeline |-> <<>>]
                  ELSE build_pipeline(Tail(segments), Append(pipeline, tokens))

parse_line(l) ==
    LET sb    == strip_background(l)
        segs0 == split_segments(sb.s)
    IN  IF segs0 = <<>> THEN ParseErr("empty command")
        ELSE
        LET ri    == redirect_input(segs0[1])
            segs1 == [segs0 EXCEPT ![1] = ri.seg]
            last  == Len(segs1)
            ro    == redirect_output(segs1[last])
            segs2 == [segs1 EXCEPT ![last] = ro.seg]
            bp    == build_pipeline(segs2, <<>>)
        IN  IF ri.err # "" THEN ParseErr(ri.err)
            ELSE IF ro.err # "" THEN ParseErr(ro.err)
            ELSE IF bp.err # "" THEN ParseErr(bp.err)
            ELSE ParseOk(sb.background, ri.file, ro.file, bp.pipeline)

-----------------------------------------------------------------------------
(* The parser as a state machine: a line is given, parse_line is applied *)

Pending == [ok |-> FALSE, err |-> "pending", background |-> FALSE,
            input |-> None, output |-> None, pipeline |-> <<>>]

\* the lines the specification's examples name
ExampleLines ==
    { <<"s","o","r","t"," ","<"," ","i","n"," ",">"," ","o","u","t">>,
      <<"c","1"," ","|"," ","c","2"," ","|"," ","c","3">>,
      <<"c","m","d"," ","&">>,
      <<"a"," ","'","b"," ","c","'"," ","d">>,
      <<"a"," ","|"," ","|"," ","b">>,
      <<"a","\t","\"","b","'","\t","c","\""," ","d">> }

\* no ParsedLine is being executed
NoLine == [n |-> 0, background |-> FALSE, input |-> FALSE, output |-> FALSE]

\* the orchestrator's state before the first line is read
IdleShell ==
    /\ pc = "prompt"
    /\ pl = NoLine
    /\ i = 0
    /\ pids = <<>>
    /\ prev_read_end = {}
    /\ read_end = {}
    /\ write_end = {}
    /\ k = 0
    /\ ret = "none"
    /\ printed = {}

InitParse ==
    /\ line \in {<<>>} \cup ExampleLines
    /\ result = Pending
    /\ IdleShell
    /\ proc = <<>>

\* read_line delivers the text of the line, one character after the other
TypeChar ==
    /\ result = Pending
    /\ Len(line) < MaxLen
    /\ \E c \in Alphabet : line' = Append(line, c)
    /\ UNCHANGED <<result, ovars>>

ParseLine ==
    /\ result = Pending
    /\ result' = parse_line(line)
    /\ UNCHANGED <<line, ovars>>

NextParse == TypeChar \/ ParseLine

SpecParse == InitParse /\ [][NextParse]_vars

-----------------------------------------------------------------------------
(* Properties of parse_line, checked under SpecParse *)

Parsed == result # Pending

Count(s, c) == Cardinality({j \in 1..Len(s) : s[j] = c})

IndexOf(s, c) == CHOOSE j \in 1..Len(s) : s[j] = c

\* the text parse_line works on once the '&' is gone, and its raw segments
Body == strip_background(line).s
RawSegments == split_segments(Body)

\* C2: a single-segment line with one '<' followed later by one '>' yields
\* one stage made of the tokens before '<', input_path the trimmed text
\* between '<' and '>', and output_path the trimmed text after '>'.
\* Stated for the lines whose three parts are all non-empty, as in
\* "sort < in.txt > out.txt".
C2_BothRedirections ==
    (/\ Parsed
     /\ ~contains(Body, "|") /\ ~contains(Body, NUL)
     /\ Count(Body, "<") = 1 /\ Count(Body, ">") = 1
     /\ IndexOf(Body, "<") < IndexOf(Body, ">")
     /\ shell_split(SubSeq(Body, 1, IndexOf(Body, "<") - 1)) # <<>>
     /\ trim(SubSeq(Body, IndexOf(Body, "<") + 1, IndexOf(Body, ">") - 1)) # <<>>
     /\ trim(SubSeq(Body, IndexOf(Body, ">") + 1, Len(Body))) # <<>>)
    => /\ result.ok
       /\ result.pipeline
            = <<shell_split(SubSeq(Body, 1, IndexOf(Body, "<") - 1))>>
       /\ result.input
            = Some(trim(SubSeq(Body, IndexOf(Body, "<") + 1,
                               IndexOf(Body, ">") - 1)))
       /\ result.output
            = Some(trim(SubSeq(Body, IndexOf(Body, ">") + 1, Len(Body))))

\* C9: parse_line never silently skips a stage: a line one of whose
\* pipe-separated segments has no token fails, and a successful parse has
\* one stage per segment, at least one stage, and no stage with an empty argv.
C9_NoStageSkipped ==
    Parsed =>
      /\ (\E j \in 1..Len(RawSegments) : shell_split(RawSegments[j]) = <<>>)
            => ~result.ok
      /\ result.ok =>
            /\ Len(result.pipeline) >= 1
            /\ Len(result.pipeline) = Len(RawSegments)
            /\ \A j \in 1..Len(result.pipeline) : result.pipeline[j] # <<>>

\* "a | | b" has been refused for its empty middle segment
C9_Witness ==
    /\ line = <<"a"," ","|"," ","|"," ","b">>
    /\ Parsed
    /\ result.err = "empty pipeline segment"

NoOperator(s) ==
    ~contains(s, "|") /\ ~contains(s, "<") /\ ~contains(s, ">")
        /\ ~contains(s, "&")

\* C10 as stated: every input without '|', '<', '>', '&' yields exactly one
\* stage whose argv is shell_split of the input, background = false and no
\* redirection path.
C10_AsStated ==
    (Parsed /\ NoOperator(line)) =>
        result = ParseOk(FALSE, None, None, <<shell_split(line)>>)

\* C10, amended: for an input without '|', '<', '>', '&', parse_line works
\* on the trimmed input: when that has at least one token and no token holds
\* a NUL, the result is one stage whose argv is shell_split of the trimmed
\* input, background = false and no redirection path; otherwise the parse
\* fails ("empty pipeline segment" or "NUL in arg").
C10_NoOperator ==
    (Parsed /\ NoOperator(line)) =>
        LET tokens == shell_split(trim(line))
        IN  IF tokens = <<>>
            THEN ~result.ok /\ result.err = "empty pipeline segment"
            ELSE IF \E t \in 1..Len(tokens) : contains(tokens[t], NUL)
                 THEN ~result.ok /\ result.err = "NUL in arg"
                 ELSE result = ParseOk(FALSE, None, None, <<tokens>>)

\* a line of two words and no operator has been parsed into one stage
C10_Witness ==
    /\ Parsed
    /\ NoOperator(line)
    /\ result.ok
    /\ Len(result.pipeline) = 1
    /\ Len(result.pipeline[1]) = 2

-----------------------------------------------------------------------------
(* shell_split against a description of its result by quoted regions *)

\* the quote character of the region that is open before position j of s,
\* "" outside a region: a quote opens a region, the next identical quote
\* ends it, and a region open at the end of s just ends there
RECURSIVE OpenBefore(_, _)
OpenBefore(s, j) ==
    IF j = 1 THEN ""
    ELSE LET o == OpenBefore(s, j - 1)
             c == s[j - 1]
         IN  IF o = "" THEN (IF c \in {"'", "\""} THEN c ELSE "")
             ELSE IF c = o THEN "" ELSE o

\* position j holds a quote that opens or ends a region
IsDelimiter(s, j) ==
    s[j] \in {"'", "\""} /\ OpenBefore(s, j) \in {"", s[j]}

\* position j holds a space or a tab outside every region
IsSeparator(s, j) ==
    s[j] \in {" ", "\t"} /\ OpenBefore(s, j) = ""

\* the characters of s[a..b] that are not delimiters, in order
RECURSIVE Kept(_, _, _)
Kept(s, a, b) ==
    IF a > b THEN <<>>
    ELSE (IF IsDelimiter(s, a) THEN <<>> ELSE <<s[a]>>) \o Kept(s, a + 1, b)

\* the tokens of s from position a on: s is cut at the runs of separators,
\* the delimiters are taken out of each piece, and a piece left with no
\* character gives no token
RECURSIVE TokensFrom(_, _)
TokensFrom(s, a) ==
    IF a > Len(s) THEN <<>>
    ELSE IF IsSeparator(s, a) THEN TokensFrom(s, a + 1)
    ELSE LET b == CHOOSE e \in a..Len(s) :
                      /\ \A m \in a..e : ~IsSeparator(s, m)
                      /\ e = Len(s) \/ IsSeparator(s, e + 1)
             t == Kept(s, a, b)
         IN  (IF t = <<>> THEN <<>> ELSE <<t>>) \o TokensFrom(s, b + 1)

\* C11: shell_split cuts its input only at runs of space/tab outside a
\* quoted region, a region running from a ' or " to the next identical
\* quote or to the end of the input; the delimiting quotes are removed,
\* whitespace and the other kind of quote inside a region are kept, and no
\* empty token is emitted.  Checked on the line and on every segment
\* parse_line hands to shell_split.
C11_SplitOutsideQuotes ==
    /\ shell_split(line) = TokensFrom(line, 1)
    /\ \A t \in 1..Len(shell_split(line)) : shell_split(line)[t] # <<>>
    /\ Parsed /\ result.ok =>
          \A j \in 1..Len(result.pipeline) :
              /\ result.pipeline[j] # <<>>
              /\ \A t \in 1..Len(result.pipeline[j]) :
                    result.pipeline[j][t] # <<>>

\* "a 'b c' d" has been parsed into the one stage ["a", "b c", "d"]
C11_Witness ==
    /\ line = <<"a"," ","'","b"," ","c","'"," ","d">>
    /\ Parsed
    /\ result.ok
    /\ result.pipeline = << << <<"a">>, <<"b"," ","c">>, <<"d">> >> >>
    /\ shell_split(<<"a","\t","\"","b","'","\t","c","\""," ","d">>)
          = << <<"a">>, <<"b","'","\t","c">>, <<"d">> >>
    /\ shell_split(<<"a"," ","'","b"," ">>) = << <<"a">>, <<"b"," ">> >>

-----------------------------------------------------------------------------
(* The background flag *)

\* how often c occurs in the texts of a sequence of texts
RECURSIVE CountInTexts(_, _)
CountInTexts(ts, c) ==
    IF ts = <<>> THEN 0 ELSE Count(Head(ts), c) + CountInTexts(Tail(ts), c)

\* how often c occurs in the argv of all stages and in the two paths
RECURSIVE CountInStages(_, _)
CountInStages(pipeline, c) ==
    IF pipeline = <<>> THEN 0
    ELSE CountInTexts(Head(pipeline), c) + CountInStages(Tail(pipeline), c)

CountInResult(r, c) ==
    CountInStages(r.pipeline, c) + Count(r.input.val, c) + Count(r.output.val, c)

\* C12: a successful parse has background = true exactly when the trimmed
\* line ends with '&'; that one '&' is taken out before the line is split,
\* so it appears in no stage and no path while every other '&' stays, and
\* the rest of the line parses as it would without it; a line that does
\* not end in '&' gives background = false; "cmd &" gives background = true
\* and the one stage ["cmd"]
C12_Background ==
    Parsed =>
      /\ result.ok => result.background = ends_with(trim(line), "&")
      /\ result.ok =>
            CountInResult(result, "&")
              = Count(line, "&") - (IF ends_with(trim(line), "&") THEN 1 ELSE 0)
      /\ ends_with(trim(line), "&") =>
            /\ Body = trim_end(SubSeq(trim(line), 1, Len(trim(line)) - 1))
            /\ ~ends_with(Body, "&") =>
                  parse_line(Body) = [result EXCEPT !.background = FALSE]
      /\ ~ends_with(trim(line), "&") => ~result.background
      /\ line = <<"c","m","d"," ","&">> =>
            result = ParseOk(TRUE, None, None, << << <<"c","m","d">> >> >>)

\* "cmd &" has been parsed: background, one stage
C12_Witness ==
    /\ line = <<"c","m","d"," ","&">>
    /\ Parsed
    /\ result.ok
    /\ result.background
    /\ Len(result.pipeline) = 1

-----------------------------------------------------------------------------
(* Redirection parsing *)

\* the first and the last of the segments the line splits into at '|'
FirstSegment == RawSegments[1]
LastSegment == RawSegments[Len(RawSegments)]

\* the text after the one occurrence of op in seg
After(seg, op) == SubSeq(seg, IndexOf(seg, op) + 1, Len(seg))

\* C16: '<' is looked for in the first segment only and '>' in the last
\* only; more than one '<' in the first segment fails with "invalid input
\* redirection", more than one '>' in the last with "invalid output
\* redirection"; an operator followed by whitespace only fails with
\* "missing input filename" / "missing output filename"; a path of a
\* successful parse is non-empty after trimming, there is one exactly when
\* its segment has the operator, and a '<' in a later segment or a '>' in
\* an earlier one is no operator: it stays in an argument (or in the path
\* that follows the operator of that segment).  Where the line is wrong in
\* its input and in its output redirection, either message is accepted.
C16_RedirectionParsing ==
    Parsed =>
      /\ Count(FirstSegment, "<") > 1 =>
            ~result.ok /\ result.err = "invalid input redirection"
      /\ Count(LastSegment, ">") > 1 =>
            /\ ~result.ok
            /\ ~contains(FirstSegment, "<") =>
                  result.err = "invalid output redirection"
      /\ Count(FirstSegment, "<") = 1 /\ trim(After(FirstSegment, "<")) = <<>> =>
            ~result.ok /\ result.err = "missing input filename"
      /\ Count(LastSegment, ">") = 1 /\ trim(After(LastSegment, ">")) = <<>> =>
            /\ ~result.ok
            /\ ~contains(FirstSegment, "<") =>
                  result.err = "missing output filename"
      /\ result.ok =>
            /\ result.input.some <=> Count(FirstSegment, "<") = 1
            /\ result.output.some <=> Count(LastSegment, ">") = 1
            /\ result.input.some => trim(result.input.val) # <<>>
            /\ result.output.some => trim(result.output.val) # <<>>
            /\ \A j \in 2..Len(RawSegments) :
                  CountInTexts(result.pipeline[j], "<")
                    + (IF j = Len(RawSegments)
                       THEN Count(result.output.val, "<") ELSE 0)
                    = Count(RawSegments[j], "<")
            /\ \A j \in 1..(Len(RawSegments) - 1) :
                  CountInTexts(result.pipeline[j], ">")
                    + (IF j = 1 THEN Count(result.input.val, ">") ELSE 0)
                    = Count(RawSegments[j], ">")

-----------------------------------------------------------------------------
(* The stages of a line *)

\* the positions in seg of the operators that apply to segment j
OperatorsAt(seg, j) ==
    {m \in 1..Len(seg) :
        \/ j = 1 /\ seg[m] = "<"
        \/ j = Len(RawSegments) /\ seg[m] = ">"}

\* the text of segment j the stage is made of: what precedes its first
\* redirection operator, trimmed
CommandText(j) ==
    LET seg == RawSegments[j]
        ops == OperatorsAt(seg, j)
    IN  IF ops = {} THEN seg
        ELSE trim(SubSeq(seg, 1, (CHOOSE m \in ops : \A o \in ops : m <= o) - 1))

\* C17: a successful parse has one stage more than the line, without its
\* trailing '&', has '|' characters, the stages in the order of the line:
\* stage j is made of the tokens of the j-th piece; "c1 | c2 | c3" gives
\* ["c1"], ["c2"], ["c3"]; the split is on the raw text, so a quoted '|'
\* separates stages too
C17_Stages ==
    Parsed =>
      /\ result.ok =>
            /\ Len(result.pipeline) = Count(Body, "|") + 1
            /\ \A j \in 1..Len(result.pipeline) :
                  result.pipeline[j] = shell_split(CommandText(j))
      /\ line = <<"c","1"," ","|"," ","c","2"," ","|"," ","c","3">> =>
            result.pipeline
              = << << <<"c","1">> >>, << <<"c","2">> >>, << <<"c","3">> >> >>
      /\ line = <<"a","'","|","'","a">> =>
            result.ok /\ result.pipeline = << << <<"a">> >>, << <<"a">> >> >>

\* "c1 | c2 | c3" has been parsed into three stages
C17_Witness ==
    /\ line = <<"c","1"," ","|"," ","c","2"," ","|"," ","c","3">>
    /\ Parsed
    /\ result.ok
    /\ Len(result.pipeline) = 3

-----------------------------------------------------------------------------
(* Redirection targets *)

\* C19, as stated: a path of a successful parse is the whole trimmed
\* remainder of its segment after the operator, untokenized
C19_AsStated ==
    Parsed /\ result.ok =>
      /\ result.input.some =>
            result.input.val = trim(After(FirstSegment, "<"))
      /\ result.output.some =>
            result.output.val = trim(After(LastSegment, ">"))

\* the last segment as it stands when '>' is looked for: on a line of one
\* segment the input redirection has by then cut it before its '<'
SegmentAtOutput ==
    IF Len(RawSegments) = 1 /\ contains(FirstSegment, "<")
    THEN trim(SubSeq(FirstSegment, 1, IndexOf(FirstSegment, "<") - 1))
    ELSE LastSegment

\* C19, amended: input_path is the whole trimmed remainder of the first
\* segment after its '<'; output_path is the whole trimmed remainder after
\* the '>' of the last segment, which on a one-segment line ends where the
\* '<' stands; neither is tokenized, so quotes and inner whitespace stay
\* and the words after the operator are in the path and not in the argv,
\* which is made of the text before the first operator
C19_WholeRemainder ==
    Parsed /\ result.ok =>
      /\ result.input.some =>
            /\ result.input.val = trim(After(FirstSegment, "<"))
            /\ result.pipeline[1] = shell_split(CommandText(1))
      /\ result.output.some =>
            /\ result.output.val = trim(After(SegmentAtOutput, ">"))
            /\ result.pipeline[Len(result.pipeline)]
                  = shell_split(CommandText(Len(result.pipeline)))

\* a line has been parsed whose input path keeps a quote and a blank
C19_Witness ==
    /\ Parsed
    /\ result.ok
    /\ result.input.some
    /\ contains(result.input.val, " ")
    /\ contains(result.input.val, "'")
    /\ Len(result.pipeline) = 1

-----------------------------------------------------------------------------
(* The orchestrator: the shell process, its children and their descriptors *)

\* bounds: the stages of one pipeline, and the entries of the process table
\* (a fork beyond it fails)
MaxStages == 3
MaxProcs == 4

\* line 68 and line 118: std::process::exit(127)
EXEC_FAILED == 127

Pids == 1..MaxProcs

\* what a descriptor 0 or 1 is attached to
Inherited == [kind |-> "inherited", chan |-> 0]
File      == [kind |-> "file", chan |-> 0]
Pipe(c)   == [kind |-> "pipe", chan |-> c]
Closed    == [kind |-> "closed", chan |-> 0]

REnd(c) == [chan |-> c, end |-> "r"]
WEnd(c) == [chan |-> c, end |-> "w"]

NoStatus == [kind |-> "none", code |-> 0]
Exited(code) == [kind |-> "exited", code |-> code]
Signaled == [kind |-> "signaled", code |-> 0]

\* a table entry no fork has used yet
NoProc ==
    [st |-> "none", stage |-> 0, n |-> 0, background |-> FALSE,
     input |-> FALSE, output |-> FALSE,
     prev_read_end |-> {}, read_end |-> {}, write_end |-> {},
     stdin |-> Closed, stdout |-> Closed, status |-> NoStatus,
     fail |-> "none"]

Live == {"forked", "running", "readloop"}

Forked == {p \in Pids : proc[p].st # "none"}

\* the endpoints behind the three Option<OwnedFd> locals of exec_pipeline
Owned(prev, rd, wr) ==
    {REnd(c) : c \in prev \cup rd} \cup {WEnd(c) : c \in wr}

\* the OwnedFd values the shell holds in exec_pipeline's locals
ShellHolds == Owned(prev_read_end, read_end, write_end)

\* the endpoints open in child p: its copies of the locals, and 0 and 1
ChildHolds(p) ==
    IF proc[p].st \notin Live THEN {}
    ELSE Owned(proc[p].prev_read_end, proc[p].read_end, proc[p].write_end)
         \cup (IF proc[p].stdin.kind = "pipe"
               THEN {REnd(proc[p].stdin.chan)} ELSE {})
         \cup (IF proc[p].stdout.kind = "pipe"
               THEN {WEnd(proc[p].stdout.chan)} ELSE {})

\* the processes an endpoint is open in; 0 is the shell
Holders(e) ==
    (IF e \in ShellHolds THEN {0} ELSE {}) \cup {p \in Pids : e \in ChildHolds(p)}

Init ==
    /\ line = <<>>
    /\ result = Pending
    /\ IdleShell
    /\ proc = [p \in Pids |-> NoProc]

\* a return from exec_pipeline or exec_single in the shell: the locals go
\* out of scope, which closes every OwnedFd still held and drops pl and pids
Return(r) ==
    /\ pc' = "prompt"
    /\ ret' = r
    /\ prev_read_end' = {}
    /\ read_end' = {}
    /\ write_end' = {}
    /\ i' = 0
    /\ k' = 0
    /\ pids' = <<>>
    /\ pl' = NoLine

\* what the model keeps of a child of an earlier line: the shell holds no
\* pid of it any more and shares no channel with it, so only its entry in
\* the process table is kept, whatever the child is doing
PastProc == [NoProc EXCEPT !.st = "past"]

\* main, lines 21-32, and execute, lines 49-52: the next line parses to a
\* ParsedLine of n >= 1 stages and is handed to exec_single or exec_pipeline
ReadLine ==
    /\ pc = "prompt"
    /\ \E n \in 1..MaxStages, bg \in BOOLEAN, inp \in BOOLEAN, outp \in BOOLEAN :
          /\ pl' = [n |-> n, background |-> bg, input |-> inp, output |-> outp]
          /\ pc' = IF n = 1 THEN "single_fork" ELSE "pipe"
    /\ ret' = "none"
    /\ printed' = {}
    /\ proc' = [p \in Pids |-> IF proc[p].st = "none" THEN NoProc ELSE PastProc]
    /\ UNCHANGED <<pvars, i, k, pids, prev_read_end, read_end, write_end>>

\* fork() in the shell succeeds while the process table has a free entry
NextPid == Cardinality(Forked) + 1

\* the child's image right after fork: a copy of the shell's locals
NewChild(stage) ==
    [st |-> "forked", stage |-> stage, n |-> pl.n, background |-> pl.background,
     input |-> pl.input, output |-> pl.output,
     prev_read_end |-> prev_read_end, read_end |-> read_end,
     write_end |-> write_end,
     stdin |-> Inherited, stdout |-> Inherited, status |-> NoStatus,
     fail |-> "none"]

-----------------------------------------------------------------------------
(* exec_single *)

\* line 56: fork()?
SingleFork ==
    /\ pc = "single_fork"
    /\ \/ /\ NextPid \in Pids
          /\ proc' = [proc EXCEPT ![NextPid] = NewChild(0)]
          /\ pids' = <<NextPid>>
          /\ pc' = "single_parent"
          /\ UNCHANGED <<pvars, pl, i, prev_read_end, read_end, write_end, k,
                         ret, printed>>
       \/ /\ Return("fork failed")
          /\ UNCHANGED <<pvars, printed, proc>>

\* lines 70-74: the parent after the fork
SingleParent ==
    /\ pc = "single_parent"
    /\ IF pl.background
       THEN /\ printed' = {pids[1]}
            /\ Return("Ok")
       ELSE /\ pc' = "single_wait"
            /\ UNCHANGED <<printed, ret, prev_read_end, read_end, write_end, i, k,
                           pl, pids>>
    /\ UNCHANGED <<pvars, proc>>

\* waitpid(p, None) reports Exited or Signaled: the child is reaped
WaitReaps(p) ==
    /\ proc[p].st = "zombie"
    /\ proc' = [proc EXCEPT ![p].st = "reaped"]

\* waitpid(p, None) reports something else (Stopped, Continued, ...): the
\* child is as it was
WaitOther(p) ==
    /\ proc[p].st \in Live
    /\ UNCHANGED proc

\* lines 75-81
SingleWaitDone ==
    /\ pc = "single_wait"
    /\ WaitReaps(pids[1])
    /\ Return("Ok")
    /\ UNCHANGED <<pvars, printed>>

SingleWaitRetry ==
    /\ pc = "single_wait"
    /\ WaitOther(pids[1])
    /\ UNCHANGED <<pvars, svars>>

SingleWaitErr ==
    /\ pc = "single_wait"
    /\ Return("waitpid failed")
    /\ UNCHANGED <<pvars, printed, proc>>

\* a `?` in the child returns Err from exec_single / exec_pipeline to
\* execute and to main (line 32), which prints it and loops: the child's
\* copies of the locals are dropped, descriptors 0 and 1 stay as they are
ChildReturnsErr(c, why) ==
    [c EXCEPT !.st = "readloop", !.fail = why,
              !.prev_read_end = {}, !.read_end = {}, !.write_end = {},
              !.input = FALSE, !.output = FALSE]

\* execvp succeeded: the image, and with it pl, is replaced; the descriptors
\* that were not dropped stay open (pipe() sets no close-on-exec)
ChildRuns(c) ==
    [c EXCEPT !.st = "running", !.input = FALSE, !.output = FALSE]

\* the process ends: every descriptor it held is closed, and the table
\* keeps its status until it is reaped
ChildGone(c, status, why) ==
    [c EXCEPT !.st = "zombie", !.status = status, !.fail = why,
              !.prev_read_end = {}, !.read_end = {}, !.write_end = {},
              !.stdin = Closed, !.stdout = Closed,
              !.input = FALSE, !.output = FALSE]

\* execvp whose failure ends the child with status 1
execvp_exit_1(c, execOk) ==
    IF execOk THEN ChildRuns(c) ELSE ChildGone(c, Exited(1), "exec")

\* lines 66-68 and 115-118: execvp, and exit(127) when it returns
execvp(c, execOk) ==
    IF execOk THEN ChildRuns(c) ELSE ChildGone(c, Exited(EXEC_FAILED), "exec")

\* lines 58-65, in the child: the redirections, or the `?` that leaves
single_redirect(c0, inOk, outOk) ==
    LET c1 == IF c0.input /\ inOk THEN [c0 EXCEPT !.stdin = File] ELSE c0
        c2 == IF c0.output /\ outOk THEN [c1 EXCEPT !.stdout = File] ELSE c1
    IN  IF c0.input /\ ~inOk THEN ChildReturnsErr(c0, "open input")
        ELSE IF c0.output /\ ~outOk THEN ChildReturnsErr(c1, "open output")
        ELSE c2

\* lines 57-69: the child of exec_single
SingleChild(p) ==
    /\ proc[p].st = "forked"
    /\ proc[p].n = 1
    /\ \E inOk \in BOOLEAN, outOk \in BOOLEAN, execOk \in BOOLEAN :
          LET c == single_redirect(proc[p], inOk, outOk)
          IN  /\ (~proc[p].input => inOk)
              /\ (~proc[p].output \/ ~inOk => outOk)
              /\ (c.st = "readloop" => execOk)
              /\ proc' = [proc EXCEPT ![p] =
                            IF c.st = "readloop" THEN c ELSE execvp(c, execOk)]
    /\ UNCHANGED <<pvars, svars>>

-----------------------------------------------------------------------------
(* exec_pipeline *)

\* PipelinePipe with `i < n` in place of `i < n - 1`: a channel in every
\* iteration
PipelinePipe_every_iteration ==
    /\ pc = "pipe"
    /\ IF i < pl.n
       THEN \/ /\ read_end' = {NextPid}
               /\ write_end' = {NextPid}
               /\ pc' = "fork"
               /\ UNCHANGED <<i, k, ret, prev_read_end, pl, pids>>
            \/ Return("pipe failed")
       ELSE /\ read_end' = {}
            /\ write_end' = {}
            /\ pc' = "fork"
            /\ UNCHANGED <<i, k, ret, prev_read_end, pl, pids>>
    /\ UNCHANGED <<pvars, printed, proc>>

\* lines 94-95: the channel of iteration i, named after the pid its writer
\* will get
PipelinePipe ==
    /\ pc = "pipe"
    /\ IF i < pl.n - 1
       THEN \/ /\ read_end' = {NextPid}
               /\ write_end' = {NextPid}
               /\ pc' = "fork"
               /\ UNCHANGED <<i, k, ret, prev_read_end, pl, pids>>
            \/ Return("pipe failed")
       ELSE /\ read_end' = {}
            /\ write_end' = {}
            /\ pc' = "fork"
            /\ UNCHANGED <<i, k, ret, prev_read_end, pl, pids>>
    /\ UNCHANGED <<pvars, printed, proc>>

\* PipelineFork with `break` in place of the `?` of line 97: after a failed
\* fork the stages forked so far are waited on
PipelineFork_waiting ==
    /\ pc = "fork"
    /\ \/ /\ NextPid \in Pids
          /\ proc' = [proc EXCEPT ![NextPid] = NewChild(i)]
          /\ pids' = Append(pids, NextPid)
          /\ pc' = "parent"
          /\ UNCHANGED <<pvars, pl, i, prev_read_end, read_end, write_end, k,
                         ret, printed>>
       \/ /\ IF pids = <<>>
             THEN Return("fork failed")
             ELSE /\ pc' = "wait"
                  /\ k' = 1
                  /\ prev_read_end' = {}
                  /\ read_end' = {}
                  /\ write_end' = {}
                  /\ UNCHANGED <<pl, i, pids, ret>>
          /\ UNCHANGED <<pvars, printed, proc>>

\* line 97: fork()?
PipelineFork ==
    /\ pc = "fork"
    /\ \/ /\ NextPid \in Pids
          /\ proc' = [proc EXCEPT ![NextPid] = NewChild(i)]
          /\ pids' = Append(pids, NextPid)
          /\ pc' = "parent"
          /\ UNCHANGED <<pvars, pl, i, prev_read_end, read_end, write_end, k,
                         ret, printed>>
       \/ /\ Return("fork failed")
          /\ UNCHANGED <<pvars, printed, proc>>

\* lines 120-125, and the loop's step to the next i
PipelineParent ==
    /\ pc = "parent"
    /\ prev_read_end' = read_end
    /\ read_end' = {}
    /\ write_end' = {}
    /\ i' = i + 1
    /\ pc' = IF i + 1 < pl.n THEN "pipe" ELSE "after_loop"
    /\ UNCHANGED <<pvars, pl, pids, k, ret, printed, proc>>

\* PipelineAfterLoop naming pids.last() in place of pids.first()
PipelineAfterLoop_last ==
    /\ pc = "after_loop"
    /\ IF pl.background
       THEN /\ printed' = IF pids = <<>> THEN {} ELSE {pids[Len(pids)]}
            /\ Return("Ok")
       ELSE /\ pc' = "wait"
            /\ k' = 1
            /\ UNCHANGED <<printed, ret, prev_read_end, read_end, write_end, i,
                           pl, pids>>
    /\ UNCHANGED <<pvars, proc>>

\* lines 129-132, and the entry of the loop of line 134
PipelineAfterLoop ==
    /\ pc = "after_loop"
    /\ IF pl.background
       THEN /\ printed' = IF pids = <<>> THEN {} ELSE {pids[1]}
            /\ Return("Ok")
       ELSE /\ pc' = "wait"
            /\ k' = 1
            /\ UNCHANGED <<printed, ret, prev_read_end, read_end, write_end, i,
                           pl, pids>>
    /\ UNCHANGED <<pvars, proc>>

\* lines 134-143
PipelineWaitDone ==
    /\ pc = "wait"
    /\ WaitReaps(pids[k])
    /\ IF k < Len(pids)
       THEN /\ k' = k + 1
            /\ UNCHANGED <<pc, ret, prev_read_end, read_end, write_end, i, pl,
                           pids>>
       ELSE Return("Ok")
    /\ UNCHANGED <<pvars, printed>>

\* PipelineWaitRetry with `break` in place of `continue` at line 138
PipelineWaitRetry_break ==
    /\ pc = "wait"
    /\ WaitOther(pids[k])
    /\ IF k < Len(pids)
       THEN /\ k' = k + 1
            /\ UNCHANGED <<pc, ret, prev_read_end, read_end, write_end, i, pl,
                           pids>>
       ELSE Return("Ok")
    /\ UNCHANGED <<pvars, printed>>

PipelineWaitRetry ==
    /\ pc = "wait"
    /\ WaitOther(pids[k])
    /\ UNCHANGED <<pvars, svars>>

\* PipelineWaitErr with `break` in place of the return of line 139, taken
\* at the last child: the failure is swallowed and Ok returned
PipelineWaitErr_swallowed ==
    /\ pc = "wait"
    /\ Return("Ok")
    /\ UNCHANGED <<pvars, printed, proc>>

\* line 139: waitpid fails
PipelineWaitErr ==
    /\ pc = "wait"
    /\ Return("waitpid failed")
    /\ UNCHANGED <<pvars, printed, proc>>

\* pipeline_wire without the drops of lines 112-114
pipeline_wire_keeping(c0, inOk, outOk) ==
    LET wantIn  == c0.stage = 0 /\ c0.input
        wantOut == c0.write_end = {} /\ c0.output
        c1 == IF wantIn /\ inOk THEN [c0 EXCEPT !.stdin = File] ELSE c0
        c2 == IF c0.prev_read_end # {}
              THEN [c1 EXCEPT !.stdin = Pipe(CHOOSE c \in c0.prev_read_end : TRUE)]
              ELSE c1
        c3 == IF c0.write_end # {}
              THEN [c2 EXCEPT !.stdout = Pipe(CHOOSE c \in c0.write_end : TRUE)]
              ELSE IF wantOut /\ outOk THEN [c2 EXCEPT !.stdout = File]
              ELSE c2
    IN  IF wantIn /\ ~inOk THEN ChildReturnsErr(c0, "open input")
        ELSE IF wantOut /\ ~outOk THEN ChildReturnsErr(c2, "open output")
        ELSE c3

\* pipeline_wire with `if` in place of `else if` at line 108: the output
\* file is opened and attached at every stage
pipeline_wire_output_anywhere(c0, inOk, outOk) ==
    LET wantIn  == c0.stage = 0 /\ c0.input
        wantOut == c0.output
        c1 == IF wantIn /\ inOk THEN [c0 EXCEPT !.stdin = File] ELSE c0
        c2 == IF c0.prev_read_end # {}
              THEN [c1 EXCEPT !.stdin = Pipe(CHOOSE c \in c0.prev_read_end : TRUE)]
              ELSE c1
        c3 == IF c0.write_end # {}
              THEN [c2 EXCEPT !.stdout = Pipe(CHOOSE c \in c0.write_end : TRUE)]
              ELSE c2
        c4 == IF wantOut /\ outOk THEN [c3 EXCEPT !.stdout = File] ELSE c3
    IN  IF wantIn /\ ~inOk THEN ChildReturnsErr(c0, "open input")
        ELSE IF wantOut /\ ~outOk THEN ChildReturnsErr(c3, "open output")
        ELSE [c4 EXCEPT !.prev_read_end = {}, !.read_end = {}, !.write_end = {}]

\* pipeline_wire without the dup2 of line 105
pipeline_wire_no_stdin(c0, inOk, outOk) ==
    LET wantIn  == c0.stage = 0 /\ c0.input
        wantOut == c0.write_end = {} /\ c0.output
        c1 == IF wantIn /\ inOk THEN [c0 EXCEPT !.stdin = File] ELSE c0
        c3 == IF c0.write_end # {}
              THEN [c1 EXCEPT !.stdout = Pipe(CHOOSE c \in c0.write_end : TRUE)]
              ELSE IF wantOut /\ outOk THEN [c1 EXCEPT !.stdout = File]
              ELSE c1
    IN  IF wantIn /\ ~inOk THEN ChildReturnsErr(c0, "open input")
        ELSE IF wantOut /\ ~outOk THEN ChildReturnsErr(c1, "open output")
        ELSE [c3 EXCEPT !.prev_read_end = {}, !.read_end = {}, !.write_end = {}]

\* lines 99-114, in the child, on its copies of the locals: the wiring of
\* 0 and 1, then the drops
pipeline_wire(c0, inOk, outOk) ==
    LET wantIn  == c0.stage = 0 /\ c0.input
        wantOut == c0.write_end = {} /\ c0.output
        c1 == IF wantIn /\ inOk THEN [c0 EXCEPT !.stdin = File] ELSE c0
        c2 == IF c0.prev_read_end # {}
              THEN [c1 EXCEPT !.stdin = Pipe(CHOOSE c \in c0.prev_read_end : TRUE)]
              ELSE c1
        c3 == IF c0.write_end # {}
              THEN [c2 EXCEPT !.stdout = Pipe(CHOOSE c \in c0.write_end : TRUE)]
              ELSE IF wantOut /\ outOk THEN [c2 EXCEPT !.stdout = File]
              ELSE c2
    IN  IF wantIn /\ ~inOk THEN ChildReturnsErr(c0, "open input")
        ELSE IF wantOut /\ ~outOk THEN ChildReturnsErr(c2, "open output")
        ELSE [c3 EXCEPT !.prev_read_end = {}, !.read_end = {}, !.write_end = {}]

\* lines 98-119: the child of stage proc[p].stage of exec_pipeline
PipelineChild(p) ==
    /\ proc[p].st = "forked"
    /\ proc[p].n > 1
    /\ \E inOk \in BOOLEAN, outOk \in BOOLEAN, execOk \in BOOLEAN :
          LET c == pipeline_wire(proc[p], inOk, outOk)
              wantIn  == proc[p].stage = 0 /\ proc[p].input
              wantOut == proc[p].write_end = {} /\ proc[p].output
          IN  /\ (~wantIn => inOk)
              /\ (~wantOut \/ ~inOk => outOk)
              /\ (c.st = "readloop" => execOk)
              /\ proc' = [proc EXCEPT ![p] =
                            IF c.st = "readloop" THEN c ELSE execvp(c, execOk)]
    /\ UNCHANGED <<pvars, svars>>

-----------------------------------------------------------------------------
(* the children after their set-up *)

\* the stage's program ends, by exit or by a signal
ProgramEnds(p) ==
    /\ proc[p].st = "running"
    /\ \E s \in {Exited(0), Signaled} :
          proc' = [proc EXCEPT ![p] = ChildGone(proc[p], s, "none")]
    /\ UNCHANGED <<pvars, svars>>

\* lines 26 and 29 in a child that returned into main's loop: end of input
\* or "exit" breaks the loop and main returns Ok(())
ChildLeavesLoop(p) ==
    /\ proc[p].st = "readloop"
    /\ proc' = [proc EXCEPT ![p] = ChildGone(proc[p], Exited(0), proc[p].fail)]
    /\ UNCHANGED <<pvars, svars>>

Next ==
    \/ ReadLine
    \/ SingleFork
    \/ SingleParent
    \/ SingleWaitDone
    \/ SingleWaitRetry
    \/ SingleWaitErr
    \/ PipelinePipe
    \/ PipelineFork
    \/ PipelineParent
    \/ PipelineAfterLoop
    \/ PipelineWaitDone
    \/ PipelineWaitRetry
    \/ PipelineWaitErr
    \/ \E p \in Pids : SingleChild(p)
    \/ \E p \in Pids : PipelineChild(p)
    \/ \E p \in Pids : ProgramEnds(p)
    \/ \E p \in Pids : ChildLeavesLoop(p)

Spec == Init /\ [][Next]_vars

-----------------------------------------------------------------------------
(* Scheduling: every process that can take a step of its own code takes it,
   a stage's program ends once its standard input is at end-of-stream
   (stage 0 ends on its own), and a child in the read loop leaves it when
   read_line reports end-of-stream (line 26).  Nothing forces a line to be
   read, a wait to fail, or a child that reads lines from the terminal to
   leave the loop. *)

\* a read on p's standard input returns end-of-stream: it is a pipe whose
\* write end is open in no process
EofOnStdin(p) ==
    /\ proc[p].stdin.kind = "pipe"
    /\ Holders(WEnd(proc[p].stdin.chan)) = {}

StageEnds(p) ==
    /\ proc[p].stage = 0 \/ EofOnStdin(p)
    /\ ProgramEnds(p)

\* line 26: read_line returns 0 in a child that sits in the read loop
LoopEnds(p) ==
    /\ EofOnStdin(p)
    /\ ChildLeavesLoop(p)

Fairness ==
    /\ WF_vars(SingleFork) /\ WF_vars(SingleParent) /\ WF_vars(SingleWaitDone)
    /\ WF_vars(PipelinePipe) /\ WF_vars(PipelineFork) /\ WF_vars(PipelineParent)
    /\ WF_vars(PipelineAfterLoop) /\ WF_vars(PipelineWaitDone)
    /\ \A p \in Pids : WF_vars(SingleChild(p))
    /\ \A p \in Pids : WF_vars(PipelineChild(p))
    /\ \A p \in Pids : WF_vars(StageEnds(p))
    /\ \A p \in Pids : WF_vars(LoopEnds(p))

SpecLive == Init /\ [][Next]_vars /\ Fairness

-----------------------------------------------------------------------------
(* Properties of the orchestrator *)

\* the children of the line being executed, or of the line last executed
\* while the shell sits at the prompt
Cur == {p \in Pids : proc[p].st \notin {"none", "past"}}

\* the child forked for stage s of that line, as a set
StageProc(s) == {p \in Cur : proc[p].stage = s}

\* the shell is in one of its two wait loops
Waiting == pc \in {"single_wait", "wait"}

\* the pid the wait loop is waiting on
Awaited == IF pc = "single_wait" THEN pids[1] ELSE pids[k]

\* C1: a child whose redirection file cannot be opened never returns into
\* the interpreter's read loop, so no child is ever in the read loop and the
\* shell is the only process that runs it
C1_OnlyShellInLoop ==
    \A p \in Pids : proc[p].st # "readloop"

\* C7: for a single-stage command, a redirection file that cannot be opened
\* is found before the fork, so no child of a single-stage command ever
\* meets the failure to open
C7_NoChildOnOpenFailure ==
    \A p \in Pids :
        proc[p].n = 1 => proc[p].fail \notin {"open input", "open output"}

\* every stage of an N-stage pipeline, N > 1, is forked and runs its program
AllStagesRunning ==
    /\ Cur # {}
    /\ \A p \in Cur : proc[p].n > 1 /\ proc[p].st = "running"
    /\ \A p \in Cur : Cardinality(Cur) = proc[p].n

\* channel i is written by stage i alone, as its standard output, and read
\* by stage i + 1 alone, as its standard input
EndpointOwners ==
    \A p \in Cur, q \in Cur :
        proc[q].stage = proc[p].stage + 1 =>
            \E c \in Pids :
                /\ proc[p].stdout = Pipe(c)
                /\ proc[q].stdin = Pipe(c)
                /\ Holders(WEnd(c)) = {p}
                /\ Holders(REnd(c)) = {q}

\* C3, as stated: once every stage is forked and runs its program, every
\* endpoint is open in exactly one process, the stage that uses it, and
\* not in the orchestrator
C3_AsStated ==
    AllStagesRunning => EndpointOwners

\* the orchestrator has left the fork loop of lines 93-127
LoopDone == pc \in {"after_loop", "wait", "prompt"}

\* C3, amended: once every stage is forked and runs its program and the
\* orchestrator has finished the parent branch of the last fork, every
\* endpoint is open in exactly one process, the stage that uses it, and the
\* orchestrator holds none; before that, the only endpoint open in a second
\* process is the read end of the last channel, still held by the
\* orchestrator
C3_EndpointOwners ==
    /\ AllStagesRunning /\ LoopDone =>
          EndpointOwners /\ ShellHolds = {}
    /\ AllStagesRunning /\ ~LoopDone =>
          /\ pc = "parent"
          /\ \A p \in Cur, q \in Cur :
                proc[q].stage = proc[p].stage + 1 =>
                    \E c \in Pids :
                        /\ proc[p].stdout = Pipe(c)
                        /\ proc[q].stdin = Pipe(c)
                        /\ Holders(WEnd(c)) = {p}
                        /\ Holders(REnd(c)) =
                              IF proc[q].stage = proc[q].n - 1 THEN {0, q} ELSE {q}

\* the three stages of a pipeline all run while the orchestrator waits
C3_Witness ==
    /\ pc = "wait"
    /\ pl.n = 3
    /\ AllStagesRunning
    /\ Cardinality(Cur) = 3

\* the orchestrator waits on a foreground pipeline all of whose stages are
\* through the set-up of lines 99-116, and stage 0 is a process that ends
\* on its own: it reached its program, or has ended
StagesSetUp ==
    /\ pc = "wait"
    /\ \A j \in 1..Len(pids) :
          /\ proc[pids[j]].st # "forked"
          /\ proc[pids[j]].stage = 0 => proc[pids[j]].st # "readloop"

\* once stage s has ended, stage s + 1 is at end-of-stream or has ended too
EofPropagates ==
    StagesSetUp =>
        \A p \in Cur, q \in Cur :
            /\ proc[q].stage = proc[p].stage + 1
            /\ proc[p].st \in {"zombie", "reaped"}
            => EofOnStdin(q) \/ proc[q].st \in {"zombie", "reaped"}

WaitOrder ==
    /\ pc = "single_wait" =>
          /\ ~pl.background
          /\ Len(pids) = 1 /\ pl.n = 1
          /\ proc[pids[1]].st \in Live \cup {"zombie"}
    /\ pc = "wait" =>
          /\ ~pl.background
          /\ Len(pids) = pl.n
          /\ k \in 1..Len(pids)
          /\ \A j \in 1..Len(pids) :
                IF j < k THEN proc[pids[j]].st = "reaped"
                ELSE proc[pids[j]].st \in Live \cup {"zombie"}

\* a step of the wait loops: a child is reaped only by the wait on it, when
\* it has exited or was signaled; the loop moves on only by reaping the
\* awaited child; Ok is returned only with every child reaped
WaitStep ==
    /\ \A p \in Pids :
          proc[p].st # "reaped" /\ proc'[p].st = "reaped" =>
              /\ Waiting
              /\ p = Awaited
              /\ proc[p].st = "zombie"
              /\ proc[p].status.kind \in {"exited", "signaled"}
    /\ \A p \in Pids :
          proc[p].st = "reaped" => proc'[p].st \in {"reaped", "past"}
    /\ pc = "wait" /\ pc' = "wait" /\ k' # k =>
          /\ k' = k + 1
          /\ proc[pids[k]].st = "zombie"
          /\ proc'[pids[k]].st = "reaped"
    /\ Waiting /\ pc' = pc /\ proc[Awaited].st # "zombie" => k' = k
    /\ Waiting /\ pc' = "prompt" /\ ret' = "Ok" =>
          /\ Len(pids) = pl.n
          /\ \A j \in 1..Len(pids) :
                /\ proc'[pids[j]].st = "reaped"
                /\ proc'[pids[j]].status.kind \in {"exited", "signaled"}

\* C5: in foreground mode every forked child is reaped exactly once and in
\* forking order, the wait on a child is retried while the status is
\* neither exited nor signaled, child k + 1 is not waited on before child k
\* has completed, and Ok is returned only after all N children completed
C5_ForegroundReaping ==
    /\ []WaitOrder
    /\ [][WaitStep]_vars

\* a foreground pipeline of three stages returned Ok with its three
\* children reaped
C5_Witness ==
    /\ pc = "prompt"
    /\ ret = "Ok"
    /\ Cardinality(Cur) = 3
    /\ \A p \in Cur : proc[p].st = "reaped" /\ ~proc[p].background

\* a step in background mode: the orchestrator, with all N stages forked,
\* reports the first pid and returns Ok, touching no child; no child of a
\* background line is ever reaped, and no child of an earlier line is ever
\* waited on
BackgroundStep ==
    /\ pc \in {"single_parent", "after_loop"} /\ pl.background /\ svars' # svars =>
          /\ Len(pids) = pl.n
          /\ pc' = "prompt"
          /\ ret' = "Ok"
          /\ printed' = {pids[1]}
          /\ proc[pids[1]].stage = 0
          /\ proc' = proc
    /\ \A p \in Pids :
          proc[p].background \/ proc[p].st = "past" =>
              /\ proc'[p].st # "reaped"
              /\ \/ proc'[p] = proc[p]
                 \/ svars' = svars
                 \/ pc = "prompt" /\ proc'[p].st = "past"

\* the wait loops are entered in foreground mode only, and only on children
\* of the line being executed
NoWaitInBackground ==
    /\ Waiting => ~pl.background
    /\ \A j \in 1..Len(pids) :
          /\ proc[pids[j]].st # "past"
          /\ proc[pids[j]].background = pl.background
    /\ pl.background => printed = {}

\* C6: in background mode, after all N stages are forked, execute reports
\* the pid of the first-forked child and returns Ok without any wait; it
\* can return while every child still runs, and no later execute waits on
\* those children
C6_BackgroundReturns ==
    /\ []NoWaitInBackground
    /\ [][BackgroundStep]_vars

\* execute returned from a background pipeline of three stages, reported
\* its first pid, and all three children still run
C6_Witness ==
    /\ pc = "prompt"
    /\ ret = "Ok"
    /\ Cardinality(Cur) = 3
    /\ \A p \in Cur : proc[p].background /\ proc[p].st = "running"
    /\ \E p \in StageProc(0) : printed = {p}

\* a child whose execvp failed has ended, with status 127
ExecFailureStatus ==
    \A p \in Pids :
        proc[p].fail = "exec" =>
            /\ proc[p].st \in {"zombie", "reaped"}
            /\ proc[p].status = Exited(EXEC_FAILED)

\* the step of a failing execvp changes that child and nothing else; the
\* orchestrator forks every stage whatever became of the earlier ones, and
\* a foreground orchestrator returns Ok with all its children reaped
ExecFailureStep ==
    /\ \A p \in Pids :
          proc[p].fail # "exec" /\ proc'[p].fail = "exec" =>
              /\ proc[p].st = "forked"
              /\ svars' = svars
              /\ \A q \in Pids \ {p} : proc'[q] = proc[q]
    /\ pc = "fork" /\ pc' = "parent" =>
          /\ Len(pids') = Len(pids) + 1
          /\ proc'[pids'[Len(pids')]].st = "forked"
          /\ proc'[pids'[Len(pids')]].stage = i
    /\ pc \in {"after_loop", "wait"} => Len(pids) = pl.n
    /\ Waiting /\ pc' = "prompt" /\ ret' = "Ok" =>
          \A j \in 1..Len(pids) : proc'[pids[j]].st = "reaped"

\* C8: a child whose execvp fails ends with exit status 127 and nothing
\* else changes: the other stages are forked and run, and in foreground
\* mode the parent waits on all N children, the failed one too, and
\* returns Ok
C8_ExecFailure ==
    /\ []ExecFailureStatus
    /\ [][ExecFailureStep]_vars

\* a foreground pipeline returned Ok after reaping a stage whose execvp
\* failed, with status 127, and a later stage whose program ran and exited
C8_Witness ==
    /\ pc = "prompt"
    /\ ret = "Ok"
    /\ \E p \in Cur, q \in Cur :
          /\ proc[p].st = "reaped" /\ proc[p].fail = "exec"
          /\ proc[p].status = Exited(EXEC_FAILED)
          /\ proc[q].stage > proc[p].stage
          /\ proc[q].st = "reaped" /\ proc[q].fail = "none"
          /\ proc[q].status = Exited(0)

-----------------------------------------------------------------------------
(* The wiring of the standard streams *)

\* the pid of the child forked for stage s of the line being executed; the
\* channel created in iteration s carries that pid as its name
StagePid(s) == CHOOSE q \in Cur : proc[q].stage = s

\* what stage c.stage of c.n is to have on descriptors 0 and 1, for a child
\* with pid p whose image before the set-up is c
StdinOf(c) ==
    IF c.stage > 0 THEN Pipe(StagePid(c.stage - 1))
    ELSE IF c.input THEN File
    ELSE Inherited

StdoutOf(c, p) ==
    IF c.stage < c.n - 1 THEN Pipe(p)
    ELSE IF c.output THEN File
    ELSE Inherited

\* no file on a descriptor of a stage that is not to have one, and no pipe
\* where the pipeline has none, in any child, whatever became of its set-up
FilesAtTheEnds ==
    \A p \in Cur :
        /\ proc[p].stdin.kind = "file" => proc[p].stage = 0
        /\ proc[p].stdout.kind = "file" => proc[p].stage = proc[p].n - 1
        /\ proc[p].stdin.kind = "pipe" => proc[p].stage > 0
        /\ proc[p].stdout.kind = "pipe" => proc[p].stage < proc[p].n - 1

\* a child reaches its program with 0 and 1 wired as its stage requires,
\* and stays so while the program runs
WiringStep ==
    \A p \in Pids :
        /\ proc[p].st = "forked" /\ proc'[p].st = "running" =>
              /\ proc'[p].stdin = StdinOf(proc[p])
              /\ proc'[p].stdout = StdoutOf(proc[p], p)
        /\ proc[p].st = "running" /\ proc'[p].st = "running" =>
              /\ proc'[p].stdin = proc[p].stdin
              /\ proc'[p].stdout = proc[p].stdout

\* C13: stage i of N starts its program with standard input on the input
\* file iff i = 0 and input_path is set, on the read end of channel i-1
\* iff i > 0, inherited otherwise, and with standard output on the write
\* end of channel i iff i < N-1, on the output file iff i = N-1 and
\* output_path is set, inherited otherwise; the input file is attached to
\* no stage but 0 and the output file to no stage but N-1
C13_Wiring ==
    /\ []FilesAtTheEnds
    /\ [][WiringStep]_vars

\* the three stages of "a < in | b | c > out" run: file to stage 0, the
\* two channels in between, stage 2 to the file
C13_Witness ==
    /\ pc = "wait"
    /\ pl = [n |-> 3, background |-> FALSE, input |-> TRUE, output |-> TRUE]
    /\ \A p \in Cur : proc[p].st = "running"
    /\ \E p \in StageProc(0), q \in StageProc(1), r \in StageProc(2) :
          /\ proc[p].stdin = File /\ proc[p].stdout = Pipe(p)
          /\ proc[q].stdin = Pipe(p) /\ proc[q].stdout = Pipe(q)
          /\ proc[r].stdin = Pipe(q) /\ proc[r].stdout = File

-----------------------------------------------------------------------------
(* The channels and the endpoints the orchestrator holds *)

\* the orchestrator holds the pending read end and the two ends of the
\* channel of this iteration, at most; none outside the loop of lines
\* 93-127, so none when it waits, has returned, or runs exec_single
HeldEndpoints ==
    /\ Cardinality(prev_read_end) <= 1
    /\ Cardinality(read_end) <= 1
    /\ write_end \subseteq read_end
    /\ prev_read_end \cap read_end = {}
    /\ Cardinality(ShellHolds) <= 3
    /\ pc \notin {"pipe", "fork", "parent"} => ShellHolds = {}
    /\ pc = "pipe" => read_end = {} /\ write_end = {}
    /\ pc \in {"pipe", "fork", "parent"} =>
          /\ pl.n > 1
          /\ i \in 0..(pl.n - 1)
          /\ Len(pids) = (IF pc = "parent" THEN i + 1 ELSE i)
          /\ prev_read_end # {} <=> i > 0
    /\ pc \in {"fork", "parent"} => (read_end # {} <=> i < pl.n - 1)
    /\ pc \in {"after_loop", "wait"} => i = pl.n /\ Len(pids) = pl.n

\* a channel is created only at line 95, one in each iteration but the
\* last; the iterations are those of i = 0 .. N-1, in order; a return
\* leaves the orchestrator with no endpoint
ChannelStep ==
    /\ read_end' # {} /\ read_end' # read_end =>
          /\ pc = "pipe" /\ pc' = "fork"
          /\ i < pl.n - 1
          /\ write_end' = read_end'
          /\ \A p \in Pids : read_end' \cap
                (proc[p].prev_read_end \cup proc[p].read_end
                   \cup proc[p].write_end) = {}
          /\ read_end' \cap prev_read_end = {}
    /\ pc = "pipe" /\ pc' = "fork" => (read_end' # {} <=> i < pl.n - 1)
    /\ pc = "pipe" /\ pc' = "fork" => i' = i /\ pl' = pl
    /\ pc = "parent" /\ svars' # svars =>
          /\ i' = i + 1
          /\ prev_read_end' = read_end
          /\ pc' = (IF i' < pl.n THEN "pipe" ELSE "after_loop")
    /\ pc' = "prompt" =>
          prev_read_end' = {} /\ read_end' = {} /\ write_end' = {}

\* C14: the orchestrator creates one channel in each iteration but the
\* last, N-1 for N stages and none for N = 1, holds at most three
\* endpoints at any moment (the pending read end and the two ends of the
\* channel just created), and holds none when exec_pipeline returns, by
\* any path, or starts waiting
C14_Channels ==
    /\ []HeldEndpoints
    /\ [][ChannelStep]_vars

\* in the second iteration of three the orchestrator holds three endpoints:
\* the read end of channel 0 and both ends of channel 1
C14_Witness ==
    /\ pc = "fork"
    /\ pl.n = 3
    /\ i = 1
    /\ Cardinality(ShellHolds) = 3
    /\ prev_read_end # {} /\ read_end # {} /\ write_end = read_end

-----------------------------------------------------------------------------
(* A failing wait *)

\* at the prompt the orchestrator has no pid left to wait on and can read
\* the next line
BackAtPrompt ==
    pc = "prompt" => pids = <<>> /\ ENABLED ReadLine

\* a wait loop is left without a reaping only by the error return, which
\* touches no child and leaves the awaited child and those forked after it
\* unreaped; a child is reaped only while its pid is in pids, and pids only
\* ever takes the pid of a child being forked
WaitFailStep ==
    /\ Waiting /\ pc' = "prompt" /\ proc' = proc =>
          /\ ret' = "waitpid failed"
          /\ pids' = <<>>
          /\ \A j \in (IF pc = "wait" THEN k ELSE 1)..Len(pids) :
                proc'[pids[j]].st # "reaped"
    /\ Waiting /\ ret' = "waitpid failed" => pc' = "prompt" /\ proc' = proc
    /\ \A p \in Pids :
          proc[p].st # "reaped" /\ proc'[p].st = "reaped" =>
              Waiting /\ \E j \in 1..Len(pids) : pids[j] = p
    /\ pids' # pids =>
          \/ pids' = <<>>
          \/ /\ pids' = Append(pids, NextPid)
             /\ proc[NextPid].st = "none"
             /\ proc'[NextPid].st = "forked"

\* C15: when waitpid fails while the parent waits on child k of a
\* foreground line, execute returns that error, the read loop goes on to
\* the next line, and the children forked after k are never waited on
C15_WaitFailure ==
    /\ []BackAtPrompt
    /\ [][WaitFailStep]_vars

\* the wait on the second of three children failed: execute has returned
\* the error with the first child reaped and the other two left running
C15_Witness ==
    /\ pc = "prompt"
    /\ ret = "waitpid failed"
    /\ \E p \in StageProc(0), q \in StageProc(1), r \in StageProc(2) :
          /\ proc[p].st = "reaped"
          /\ proc[q].st = "running"
          /\ proc[r].st = "running"

-----------------------------------------------------------------------------
(* A failing pipe() or fork() in the middle of a pipeline *)

\* a step of lines 95 and 97: either the call succeeds and the loop goes
\* on, or execute returns the error at once, with the stages 0..i-1 forked,
\* none of them touched or reaped, and no later stage forked; a child is
\* forked by these lines only, and a child left behind is never reaped
FailedSetupStep ==
    /\ pc = "pipe" /\ svars' # svars =>
          \/ pc' = "fork" /\ proc' = proc
          \/ /\ pc' = "prompt" /\ ret' = "pipe failed"
             /\ i < pl.n - 1
    /\ pc = "fork" /\ svars' # svars =>
          \/ /\ pc' = "parent"
             /\ pids' = Append(pids, NextPid)
             /\ proc[NextPid].st = "none" /\ proc'[NextPid].st = "forked"
          \/ pc' = "prompt" /\ ret' = "fork failed"
    /\ pc \in {"pipe", "fork"} /\ pc' = "prompt" =>
          /\ proc' = proc
          /\ pids' = <<>>
          /\ Len(pids) = i
          /\ \A p \in Cur : proc[p].stage < i /\ proc[p].st # "reaped"
          /\ \A s \in 0..(i - 1) : StageProc(s) # {}
    /\ ret' # ret /\ ret' \in {"pipe failed", "fork failed"} =>
          pc \in {"single_fork", "pipe", "fork"}
    /\ \A p \in Pids :
          proc[p].st = "none" /\ proc'[p].st # "none" =>
              pc \in {"single_fork", "fork"} /\ p = NextPid
    /\ \A p \in Pids :
          proc[p].st # "reaped" /\ proc'[p].st = "reaped" =>
              \E j \in 1..Len(pids) : pids[j] = p

\* after such a return the children are the stages 0..i-1, fewer than N,
\* none reaped, and the orchestrator keeps no pid of them
LeftBehind ==
    pc = "prompt" /\ ret \in {"pipe failed", "fork failed"} =>
        /\ pids = <<>>
        /\ \A p \in Cur :
              /\ proc[p].st # "reaped"
              /\ proc[p].n > 1
              /\ Cardinality(Cur) < proc[p].n
              /\ proc[p].stage < Cardinality(Cur)

\* C18: when pipe() or fork() fails in iteration i >= 1 of exec_pipeline,
\* execute returns the error at once: the stages i..N-1 are never forked,
\* and the stages 0..i-1, already forked, go on and are never waited on,
\* in foreground mode too
C18_FailedSetup ==
    /\ []LeftBehind
    /\ [][FailedSetupStep]_vars

\* the fork of the third of three foreground stages failed: execute has
\* returned and the first two stages run, unreaped
C18_Witness ==
    /\ pc = "prompt"
    /\ ret = "fork failed"
    /\ Cardinality(Cur) = 2
    /\ \A p \in Cur :
          proc[p].n = 3 /\ ~proc[p].background /\ proc[p].st = "running"

====
